---------------------------- MODULE Spec2Model ----------------------------
(***************************************************************************)
(* Model of advance_01/lru_cache.py: the class LRUCache, a dict            *)
(* (data_cache) paired with a collections.deque (deq) of the same keys,    *)
(* front = least recently used, back = most recently used.                 *)
(*                                                                         *)
(* Every call of get or set is one action.  The variables op, result and   *)
(* log record the last call, what it returned or raised, and the logging   *)
(* calls it made; touched and nops are history variables (the number of    *)
(* calls made so far, and for each key the number of the last call that    *)
(* touched it).                                                            *)
(*                                                                         *)
(* The same two methods are also modelled statement by statement, run by   *)
(* the threads of Threads: th[t] holds the position and the local          *)
(* variables of thread t, and atomic tells whether a call runs to its end  *)
(* before another call starts.  main_pc counts the calls made by main and  *)
(* admitted records, for each resident key, the value of the set call that *)
(* made it resident (history).                                             *)
(***************************************************************************)
EXTENDS Integers, Sequences, FiniteSets, TLC

VARIABLES limit, data_cache, deq, op, result, log, touched, nops, th, atomic,
          main_pc, admitted

vars == <<limit, data_cache, deq, op, result, log, touched, nops, th, atomic,
          main_pc, admitted>>

(* ------------------------------ bounds -------------------------------- *)

MaxLimit == 3

MinLimit == -1

MaxOps == 5

\* calls made in all by the threads
MaxCalls == 3

(* ---------------------------- input domains --------------------------- *)

Keys == {"k1", "k2", "k3", "k4"}

\* Python's None.  The strings of Values other than None are str objects.
None == "None"

Values == {None, "val1", "val2"}

Threads == {1, 2}

\* the keys and values the threads call get and set with
ThreadKeys == {"k1", "k2", "k3"}

ThreadValues == {"val1"}

(* --------------------------- Python helpers --------------------------- *)

\* the empty dict {}
EmptyDict == [k \in {} |-> None]

\* the elements of a deque
Elems(d) == {d[i] : i \in 1..Len(d)}

\* key in self.data_cache
InCache(dc, key) == key \in DOMAIN dc

\* self.data_cache[key] = value
DictSet(dc, key, value) ==
    [k \in (DOMAIN dc) \cup {key} |-> IF k = key THEN value ELSE dc[k]]

\* variant: the del statement is left out
DictDel_skipped(dc, rem) == dc

\* del self.data_cache[rem]   (rem is a key of dc)
DictDel(dc, rem) == [k \in (DOMAIN dc) \ {rem} |-> dc[k]]

\* index of the first occurrence of x in d (x occurs in d)
FirstIndex(d, x) == CHOOSE i \in 1..Len(d) :
                        /\ d[i] = x
                        /\ \A j \in 1..(i-1) : d[j] # x

\* the number of elements deque.remove(x) compares with x: it scans d from
\* the left up to the first occurrence of x
RemoveWork(d, x) == FirstIndex(d, x)

\* variant: the remove before the append is left out
DeqRemove_skipped(d, x) == d

\* deque.remove(x): removes the first occurrence of x (x occurs in d)
DeqRemove(d, x) ==
    LET i == FirstIndex(d, x)
    IN  SubSeq(d, 1, i-1) \o SubSeq(d, i+1, Len(d))

\* variant: appendleft instead of append
DeqAppend_left(d, x) == <<x>> \o d

\* deque.append(x): add x to the right side
DeqAppend(d, x) == Append(d, x)

\* variant: pop() instead of popleft()
PopLeft_right(d) == <<d[Len(d)], SubSeq(d, 1, Len(d) - 1)>>

\* deque.popleft() on a non-empty deque: <<the element removed from the left
\* side, the deque that remains>>
PopLeft(d) == <<Head(d), Tail(d)>>

\* variant: <= instead of <
HasRoom_le(d, l) == Len(d) <= l

\* variant: room is judged one entry too early
HasRoom_early(d, l) == Len(d) < l - 1

\* len(self.deq) < self.limit
HasRoom(d, l) == Len(d) < l

(* ------------------------------ logging ------------------------------- *)

Event(level, msg, args) == [level |-> level, msg |-> msg, args |-> args]

\* logger.info("get \"%s\" from cache", value)
EvGet(value) == Event("INFO", "get \"%s\" from cache", <<value>>)

\* logger.debug("remove \"%s\" from deque", key)
EvDeqRemove(key) == Event("DEBUG", "remove \"%s\" from deque", <<key>>)

\* logger.debug("add \"%s\" to deque", key)
EvDeqAdd(key) == Event("DEBUG", "add \"%s\" to deque", <<key>>)

\* logger.warning("remove from cache: \"%s\"", rem)
EvEvict(rem) == Event("WARNING", "remove from cache: \"%s\"", <<rem>>)

\* logger.info("add \"%s\": \"%s\" to cache", key, self.data_cache[key])
EvAdd(key, value) == Event("INFO", "add \"%s\": \"%s\" to cache", <<key, value>>)

(* ------------------------------ results ------------------------------- *)

Return(v) == [kind |-> "return", val |-> v]

Raise(e) == [kind |-> "raise", val |-> e]

NoCall == [name |-> "new", key |-> None, value |-> None]

\* a thread that is in no call of get or set
\* (keys0 and deq0 are history: the keys of data_cache and the deque as the
\* running call found them)
Idle == [pc |-> "idle", name |-> "none", key |-> None, value |-> None,
         rem |-> None, val |-> None, log |-> <<>>, keys0 |-> {}, deq0 |-> <<>>]

(* ---------------------------- construction ---------------------------- *)

\* LRUCache(l): data_cache and deq are left at their default None, so the
\* dict is {} and the deque is built from its (no) keys.  limit is stored
\* as given, with no check.
New(l) ==
    /\ limit = l
    /\ data_cache = EmptyDict
    /\ deq = <<>>
    /\ op = NoCall
    /\ result = Return(None)
    /\ log = <<>>
    /\ touched = [k \in Keys |-> 0]
    /\ nops = 0
    /\ th = [t \in Threads |-> Idle]
    /\ main_pc = 0
    /\ admitted = EmptyDict

Init == atomic = TRUE /\ \E l \in 1..MaxLimit : New(l)

InitAnyLimit == atomic = TRUE /\ \E l \in MinLimit..MaxLimit : New(l)

(* -------------------------------- get --------------------------------- *)

Touch(key) == touched' = [touched EXCEPT ![key] = nops + 1]

\* variant: a miss raises KeyError, as self.data_cache[key] would
GetMiss_raise(key) ==
    /\ result' = Raise("KeyError")
    /\ log' = <<>>
    /\ UNCHANGED <<data_cache, deq, touched>>

\* variant: a miss stores None under the key, as dict.setdefault would
GetMiss_setdefault(key) ==
    /\ result' = Return(None)
    /\ log' = <<>>
    /\ data_cache' = DictSet(data_cache, key, None)
    /\ deq' = DeqAppend(deq, key)
    /\ UNCHANGED touched

\* if key not in self.data_cache: return None
GetMiss(key) ==
    /\ result' = Return(None)
    /\ log' = <<>>
    /\ UNCHANGED <<data_cache, deq, touched>>

\* variant: the hit rotates the deque (front to back) instead of moving
\* the key
GetHit_rotate(key) ==
    LET value == data_cache[key]
    IN  /\ deq' = DeqAppend(Tail(deq), Head(deq))
        /\ log' = <<EvGet(value), EvDeqRemove(key), EvDeqAdd(key)>>
        /\ result' = Return(value)
        /\ Touch(key)
        /\ UNCHANGED data_cache

\* the key is in self.data_cache: lines 79-87
GetHit(key) ==
    LET value == data_cache[key]
    IN  IF key \notin Elems(deq)
        THEN \* deque.remove(x) raises ValueError
             /\ result' = Raise("ValueError")
             /\ log' = <<EvGet(value)>>
             /\ UNCHANGED <<data_cache, deq, touched>>
        ELSE /\ deq' = DeqAppend(DeqRemove(deq, key), key)
             /\ log' = <<EvGet(value), EvDeqRemove(key), EvDeqAdd(key)>>
             /\ result' = Return(value)
             /\ Touch(key)
             /\ UNCHANGED data_cache

get(key) ==
    /\ nops' = nops + 1
    /\ op' = [name |-> "get", key |-> key, value |-> None]
    /\ UNCHANGED <<limit, th, atomic, admitted>>
    /\ IF ~InCache(data_cache, key)
       THEN GetMiss(key)
       ELSE GetHit(key)

(* -------------------------------- set --------------------------------- *)

\* variant: the refresh leaves the key where it is in the deque
SetRefresh_nomove(key, value) ==
    /\ log' = <<EvDeqRemove(key), EvDeqAdd(key)>>
    /\ result' = Return(None)
    /\ Touch(key)
    /\ UNCHANGED <<data_cache, deq>>

\* variant: the refresh also stores the new value
SetRefresh_overwrite(key, value) ==
    /\ key \in Elems(deq)
    /\ data_cache' = DictSet(data_cache, key, value)
    /\ deq' = DeqAppend(DeqRemove(deq, key), key)
    /\ log' = <<EvDeqRemove(key), EvDeqAdd(key)>>
    /\ result' = Return(None)
    /\ Touch(key)

\* first branch: key in self.data_cache
SetRefresh(key, value) ==
    IF key \notin Elems(deq)
    THEN \* deque.remove(x) raises ValueError
         /\ result' = Raise("ValueError")
         /\ log' = <<>>
         /\ UNCHANGED <<data_cache, deq, touched>>
    ELSE /\ deq' = DeqAppend(DeqRemove(deq, key), key)
         /\ log' = <<EvDeqRemove(key), EvDeqAdd(key)>>
         /\ result' = Return(None)
         /\ Touch(key)
         /\ UNCHANGED data_cache

\* variant: the key is appended to the deque but the value is not stored
SetInsert_nostore(key, value) ==
    /\ deq' = DeqAppend(deq, key)
    /\ log' = <<EvDeqAdd(key)>>
    /\ result' = Return(None)
    /\ Touch(key)
    /\ UNCHANGED data_cache

\* second branch: key not in self.data_cache and len(self.deq) < self.limit
SetInsert(key, value) ==
    /\ data_cache' = DictSet(data_cache, key, value)
    /\ deq' = DeqAppend(deq, key)
    /\ log' = <<EvDeqAdd(key)>>
    /\ result' = Return(None)
    /\ Touch(key)

\* else branch
SetEvict(key, value) ==
    IF deq = <<>>
    THEN \* popleft on an empty deque raises IndexError
         /\ result' = Raise("IndexError")
         /\ log' = <<>>
         /\ UNCHANGED <<data_cache, deq, touched>>
    ELSE LET rem == PopLeft(deq)[1]
             rest == PopLeft(deq)[2]
         IN  IF ~InCache(data_cache, rem)
             THEN \* del of a missing key raises KeyError, after the pop
                  /\ deq' = rest
                  /\ result' = Raise("KeyError")
                  /\ log' = <<>>
                  /\ UNCHANGED <<data_cache, touched>>
             ELSE /\ data_cache' = DictSet(DictDel(data_cache, rem), key, value)
                  /\ deq' = DeqAppend(rest, key)
                  /\ log' = <<EvEvict(rem), EvAdd(key, value), EvDeqAdd(key)>>
                  /\ result' = Return(None)
                  /\ Touch(key)

\* history: the value given by the set call that made each resident key
\* resident
Admit(key, value) ==
    admitted' = [k \in DOMAIN data_cache' |->
                    IF k = key /\ key \notin DOMAIN data_cache THEN value
                    ELSE IF k \in DOMAIN admitted THEN admitted[k]
                    ELSE None]

set(key, value) ==
    /\ nops' = nops + 1
    /\ op' = [name |-> "set", key |-> key, value |-> value]
    /\ UNCHANGED <<limit, th, atomic>>
    /\ IF InCache(data_cache, key)
       THEN SetRefresh(key, value)
       ELSE IF ~InCache(data_cache, key) /\ HasRoom(deq, limit)
            THEN SetInsert(key, value)
            ELSE SetEvict(key, value)
    /\ Admit(key, value)

(* ------------------- get and set, statement by statement --------------- *)

\* thread t goes on to the statement at label pc
Goto(t, pc) == th' = [th EXCEPT ![t].pc = pc]

\* thread t goes on to pc after logging the record ev
GotoLogging(t, pc, ev) ==
    th' = [th EXCEPT ![t].pc = pc, ![t].log = Append(th[t].log, ev)]

\* the call of thread t ends with res (a return or an exception that leaves
\* the method); lg is what the call has logged
Finish(t, res, lg) ==
    /\ th' = [th EXCEPT ![t] = Idle]
    /\ op' = [name |-> th[t].name, key |-> th[t].key, value |-> th[t].value]
    /\ result' = res
    /\ log' = lg

\* thread t calls cache.get(key) or cache.set(key, value); when calls are
\* atomic no call starts while another is running
Call(t, name, key, value) ==
    /\ th[t].pc = "idle"
    /\ nops < MaxCalls
    /\ atomic => \A u \in Threads : th[u].pc = "idle"
    /\ nops' = nops + 1
    /\ th' = [th EXCEPT ![t] = [Idle EXCEPT !.pc = IF name = "get" THEN "L77"
                                                                  ELSE "L94",
                                          !.name = name,
                                          !.key = key,
                                          !.value = value,
                                          !.keys0 = DOMAIN data_cache,
                                          !.deq0 = deq]]
    /\ UNCHANGED <<limit, data_cache, deq, op, result, log, touched, atomic, main_pc, admitted>>

\* line 77-78: if key not in self.data_cache: return None
get_L77(t) ==
    /\ th[t].pc = "L77"
    /\ IF ~InCache(data_cache, th[t].key)
       THEN Finish(t, Return(None), th[t].log)
       ELSE Goto(t, "L79") /\ UNCHANGED <<op, result, log>>
    /\ UNCHANGED <<limit, data_cache, deq, touched, nops, atomic, main_pc, admitted>>

\* line 79: value = self.data_cache[key]
get_L79(t) ==
    /\ th[t].pc = "L79"
    /\ IF ~InCache(data_cache, th[t].key)
       THEN Finish(t, Raise("KeyError"), th[t].log)
       ELSE /\ th' = [th EXCEPT ![t].pc = "L80",
                                ![t].val = data_cache[th[t].key]]
            /\ UNCHANGED <<op, result, log>>
    /\ UNCHANGED <<limit, data_cache, deq, touched, nops, atomic, main_pc, admitted>>

\* line 80-82: logger.info("get \"%s\" from cache", value)
get_L80(t) ==
    /\ th[t].pc = "L80"
    /\ GotoLogging(t, "L83", EvGet(th[t].val))
    /\ UNCHANGED <<limit, data_cache, deq, op, result, log, touched, nops,
                   atomic, main_pc, admitted>>

\* line 83-84: self.deq.remove(key), and the debug record after it
get_L83(t) ==
    /\ th[t].pc = "L83"
    /\ IF th[t].key \notin Elems(deq)
       THEN Finish(t, Raise("ValueError"), th[t].log) /\ UNCHANGED deq
       ELSE /\ deq' = DeqRemove(deq, th[t].key)
            /\ GotoLogging(t, "L85", EvDeqRemove(th[t].key))
            /\ UNCHANGED <<op, result, log>>
    /\ UNCHANGED <<limit, data_cache, touched, nops, atomic, main_pc, admitted>>

\* line 85-87: self.deq.append(key), the debug record, return value
get_L85(t) ==
    /\ th[t].pc = "L85"
    /\ deq' = DeqAppend(deq, th[t].key)
    /\ Finish(t, Return(th[t].val), Append(th[t].log, EvDeqAdd(th[t].key)))
    /\ UNCHANGED <<limit, data_cache, touched, nops, atomic, main_pc, admitted>>

\* line 94: if key in self.data_cache
set_L94(t) ==
    /\ th[t].pc = "L94"
    /\ IF InCache(data_cache, th[t].key) THEN Goto(t, "L95")
                                         ELSE Goto(t, "L99")
    /\ UNCHANGED <<limit, data_cache, deq, op, result, log, touched, nops,
                   atomic, main_pc, admitted>>

\* line 95-96: self.deq.remove(key), and the debug record after it
set_L95(t) ==
    /\ th[t].pc = "L95"
    /\ IF th[t].key \notin Elems(deq)
       THEN Finish(t, Raise("ValueError"), th[t].log) /\ UNCHANGED deq
       ELSE /\ deq' = DeqRemove(deq, th[t].key)
            /\ GotoLogging(t, "L97", EvDeqRemove(th[t].key))
            /\ UNCHANGED <<op, result, log>>
    /\ UNCHANGED <<limit, data_cache, touched, nops, atomic, main_pc, admitted>>

\* line 97-98: self.deq.append(key), the debug record, end of the method
set_L97(t) ==
    /\ th[t].pc = "L97"
    /\ deq' = DeqAppend(deq, th[t].key)
    /\ Finish(t, Return(None), Append(th[t].log, EvDeqAdd(th[t].key)))
    /\ UNCHANGED <<limit, data_cache, touched, nops, atomic, main_pc, admitted>>

\* line 99, left operand: elif key not in self.data_cache
set_L99(t) ==
    /\ th[t].pc = "L99"
    /\ IF ~InCache(data_cache, th[t].key) THEN Goto(t, "L99b")
                                          ELSE Goto(t, "L104")
    /\ UNCHANGED <<limit, data_cache, deq, op, result, log, touched, nops,
                   atomic, main_pc, admitted>>

\* line 99, right operand: and len(self.deq) < self.limit
set_L99b(t) ==
    /\ th[t].pc = "L99b"
    /\ IF HasRoom(deq, limit) THEN Goto(t, "L100") ELSE Goto(t, "L104")
    /\ UNCHANGED <<limit, data_cache, deq, op, result, log, touched, nops,
                   atomic, main_pc, admitted>>

\* line 100: self.data_cache[key] = value
set_L100(t) ==
    /\ th[t].pc = "L100"
    /\ data_cache' = DictSet(data_cache, th[t].key, th[t].value)
    /\ Goto(t, "L101")
    /\ UNCHANGED <<limit, deq, op, result, log, touched, nops, atomic, main_pc, admitted>>

\* line 101-102: self.deq.append(key), the debug record, end of the method
set_L101(t) ==
    /\ th[t].pc = "L101"
    /\ deq' = DeqAppend(deq, th[t].key)
    /\ Finish(t, Return(None), Append(th[t].log, EvDeqAdd(th[t].key)))
    /\ UNCHANGED <<limit, data_cache, touched, nops, atomic, main_pc, admitted>>

\* variant: the warning is logged right after the popleft and the del is
\* left out
set_L104_logfirst(t) ==
    /\ th[t].pc = "L104"
    /\ IF deq = <<>>
       THEN Finish(t, Raise("IndexError"), th[t].log) /\ UNCHANGED deq
       ELSE /\ deq' = PopLeft(deq)[2]
            /\ th' = [th EXCEPT ![t].pc = "L106", ![t].rem = PopLeft(deq)[1]]
            /\ UNCHANGED <<op, result, log>>
    /\ UNCHANGED <<limit, data_cache, touched, nops, atomic, main_pc, admitted>>

\* line 104: rem = self.deq.popleft()
set_L104(t) ==
    /\ th[t].pc = "L104"
    /\ IF deq = <<>>
       THEN Finish(t, Raise("IndexError"), th[t].log) /\ UNCHANGED deq
       ELSE /\ deq' = PopLeft(deq)[2]
            /\ th' = [th EXCEPT ![t].pc = "L105", ![t].rem = PopLeft(deq)[1]]
            /\ UNCHANGED <<op, result, log>>
    /\ UNCHANGED <<limit, data_cache, touched, nops, atomic, main_pc, admitted>>

\* variant: the del statement is left out
set_L105_skipped(t) ==
    /\ th[t].pc = "L105"
    /\ Goto(t, "L106")
    /\ UNCHANGED <<limit, data_cache, deq, op, result, log, touched, nops,
                   atomic, main_pc, admitted>>

\* line 105: del self.data_cache[rem]
set_L105(t) ==
    /\ th[t].pc = "L105"
    /\ IF ~InCache(data_cache, th[t].rem)
       THEN Finish(t, Raise("KeyError"), th[t].log) /\ UNCHANGED data_cache
       ELSE /\ data_cache' = DictDel(data_cache, th[t].rem)
            /\ Goto(t, "L106")
            /\ UNCHANGED <<op, result, log>>
    /\ UNCHANGED <<limit, deq, touched, nops, atomic, main_pc, admitted>>

\* line 106: logger.warning("remove from cache: \"%s\"", rem)
set_L106(t) ==
    /\ th[t].pc = "L106"
    /\ GotoLogging(t, "L107", EvEvict(th[t].rem))
    /\ UNCHANGED <<limit, data_cache, deq, op, result, log, touched, nops,
                   atomic, main_pc, admitted>>

\* line 107: self.data_cache[key] = value
set_L107(t) ==
    /\ th[t].pc = "L107"
    /\ data_cache' = DictSet(data_cache, th[t].key, th[t].value)
    /\ Goto(t, "L108")
    /\ UNCHANGED <<limit, deq, op, result, log, touched, nops, atomic, main_pc, admitted>>

\* line 108-110: logger.info("add \"%s\": \"%s\" to cache", key,
\* self.data_cache[key])
set_L108(t) ==
    /\ th[t].pc = "L108"
    /\ IF ~InCache(data_cache, th[t].key)
       THEN Finish(t, Raise("KeyError"), th[t].log)
       ELSE /\ GotoLogging(t, "L111",
                           EvAdd(th[t].key, data_cache[th[t].key]))
            /\ UNCHANGED <<op, result, log>>
    /\ UNCHANGED <<limit, data_cache, deq, touched, nops, atomic, main_pc, admitted>>

\* line 111-112: self.deq.append(key), the debug record, end of the method
set_L111(t) ==
    /\ th[t].pc = "L111"
    /\ deq' = DeqAppend(deq, th[t].key)
    /\ Finish(t, Return(None), Append(th[t].log, EvDeqAdd(th[t].key)))
    /\ UNCHANGED <<limit, data_cache, touched, nops, atomic, main_pc, admitted>>

\* one statement of get or set by thread t
Statement(t) ==
    \/ get_L77(t) \/ get_L79(t) \/ get_L80(t) \/ get_L83(t) \/ get_L85(t)
    \/ set_L94(t) \/ set_L95(t) \/ set_L97(t)
    \/ set_L99(t) \/ set_L99b(t) \/ set_L100(t) \/ set_L101(t)
    \/ set_L104(t) \/ set_L105(t) \/ set_L106(t) \/ set_L107(t)
    \/ set_L108(t) \/ set_L111(t)

CallGet == \E t \in Threads, key \in ThreadKeys : Call(t, "get", key, None)

CallSet == \E t \in Threads, key \in ThreadKeys, value \in ThreadValues :
               Call(t, "set", key, value)

Step == \E t \in Threads : Statement(t)

ThreadNext == CallGet \/ CallSet \/ Step

\* calls run one after the other, each to its end
InitSteps == atomic = TRUE /\ \E l \in 1..MaxLimit : New(l)

\* calls of different threads may interleave, or not
InitThreads == atomic \in BOOLEAN /\ \E l \in 1..MaxLimit : New(l)

(* --------------------------- specifications --------------------------- *)

\* a call of get or set by any caller, MaxOps calls at most
Get == \E key \in Keys :
           nops < MaxOps /\ get(key) /\ UNCHANGED main_pc

Set == \E key \in Keys, value \in Values :
           nops < MaxOps /\ set(key, value) /\ UNCHANGED main_pc

Next == Get \/ Set

Spec == Init /\ [][Next]_vars

SpecAnyLimit == InitAnyLimit /\ [][Next]_vars

\* the calls main makes on its cache, lines 143-154
Script ==
    << [name |-> "set", key |-> "k1", value |-> "val1"],
       [name |-> "set", key |-> "k2", value |-> "val2"],
       [name |-> "get", key |-> "k3", value |-> None],
       [name |-> "get", key |-> "k2", value |-> None],
       [name |-> "get", key |-> "k1", value |-> None],
       [name |-> "set", key |-> "k3", value |-> "val3"],
       [name |-> "get", key |-> "k3", value |-> None],
       [name |-> "get", key |-> "k2", value |-> None],
       [name |-> "get", key |-> "k1", value |-> None] >>

\* the next call of main, as long as main alone has used the cache
Main ==
    /\ main_pc < Len(Script)
    /\ main_pc = nops
    /\ main_pc' = main_pc + 1
    /\ LET c == Script[main_pc + 1]
       IN  IF c.name = "get" THEN get(c.key) ELSE set(c.key, c.value)

\* cache = LRUCache(2)
InitMain == atomic = TRUE /\ New(2)

\* main and any other caller of its cache
NextMain == Main \/ Get \/ Set

SpecMain == InitMain /\ [][NextMain]_vars

SpecSteps == InitSteps /\ [][ThreadNext]_vars

SpecThreads == InitThreads /\ [][ThreadNext]_vars


(* ------------------------------ properties ---------------------------- *)

Resident == DOMAIN data_cache

Size == Cardinality(DOMAIN data_cache)

\* the last call was a set that took the eviction branch to its end
Evicted == op.name = "set" /\ \E i \in 1..Len(log) : log[i].level = "WARNING"

\* d without the key k, order kept
Without(d, k) == LET Other(x) == x # k IN SelectSeq(d, Other)

\* C1: after every call on a cache created empty with limit >= 1, the keys
\* of data_cache are exactly the elements of deq, deq holds no key twice and
\* len(deq) = len(data_cache).
C1_DequeMatchesMapping ==
    /\ Elems(deq) = DOMAIN data_cache
    /\ \A i, j \in 1..Len(deq) : deq[i] = deq[j] => i = j
    /\ Len(deq) = Cardinality(DOMAIN data_cache)

\* a get hit on a key that was not at the back, in a cache of three entries
\* that has already evicted a key
C1_Witness ==
    /\ op.name = "get" /\ result.kind = "return" /\ op.key \in Resident
    /\ Len(deq) = 3
    /\ \E k \in Keys \ Resident : touched[k] > 0

\* C2: after every call on a cache created empty with limit >= 1,
\* len(data_cache) <= limit.
C2_CapacityBound == Cardinality(DOMAIN data_cache) <= limit

\* a set of a new key into a full cache has just ended, the cache is full
C2_Witness == Evicted /\ Size = limit /\ limit >= 2

\* C3: a set of a key that is not resident, on a full cache, removes exactly
\* one key, and every other resident key was touched later than it.
C3_EvictsLeastRecentlyTouched ==
    [][ ( /\ op'.name = "set"
          /\ op'.key \notin DOMAIN data_cache
          /\ Cardinality(DOMAIN data_cache) = limit )
        => \E e \in DOMAIN data_cache :
              /\ (DOMAIN data_cache) \ (DOMAIN data_cache') = {e}
              /\ \A k \in (DOMAIN data_cache) \ {e} : touched[e] < touched[k]
      ]_vars

\* an eviction from a cache of three entries in which the key inserted first
\* survives, because a get or a set has refreshed it
C3_Witness ==
    /\ Evicted /\ limit = 3
    /\ \E k \in Resident : \E j \in Keys \ Resident :
           /\ k # op.key
           /\ touched[j] > 0
           /\ touched[k] > touched[j]
           /\ deq[1] # k

\* C4: after a get that finds its key resident, and after any set, the key
\* is resident and is the last element of deq.
C4_TouchedKeyIsLast ==
    [][ ( \/ op'.name = "get" /\ op'.key \in DOMAIN data_cache
          \/ op'.name = "set" )
        => /\ op'.key \in DOMAIN data_cache'
           /\ deq' # <<>>
           /\ deq'[Len(deq')] = op'.key
      ]_vars

\* a get hit in a cache of at least two keys, the others touched before it
C4_Witness ==
    /\ op.name = "get" /\ result.kind = "return" /\ op.key \in Resident
    /\ Len(deq) >= 2
    /\ touched[op.key] = nops
    /\ \A k \in Resident \ {op.key} : touched[k] < nops

\* C5: set(k, v2) on a resident k leaves data_cache as it was and moves k to
\* the back of deq, the other keys keeping their order.
C5_SetOnResidentKeepsValue ==
    [][ ( op'.name = "set" /\ op'.key \in DOMAIN data_cache )
        => /\ data_cache' = data_cache
           /\ deq' = Append(Without(deq, op'.key), op'.key)
      ]_vars

\* a set on a resident key with a value other than the stored one
C5_Witness ==
    /\ op.name = "set" /\ op.key \in Resident
    /\ log = <<EvDeqRemove(op.key), EvDeqAdd(op.key)>>
    /\ data_cache[op.key] # op.value
    /\ Len(deq) >= 2

\* C6: get(k) with k not resident returns None and leaves data_cache and deq
\* as they were.
C6_MissChangesNothing ==
    [][ ( op'.name = "get" /\ op'.key \notin DOMAIN data_cache )
        => /\ result' = Return(None)
           /\ data_cache' = data_cache
           /\ deq' = deq
      ]_vars

\* a miss on a key that was inserted and has been evicted since
C6_Witness ==
    /\ op.name = "get" /\ op.key \notin Resident
    /\ result = Return(None)
    /\ touched[op.key] > 0
    /\ Size >= 1

\* C7: a key leaves data_cache only in a set of another key that was not
\* resident, made while the cache held limit keys.
C7_RemovedOnlyByEviction ==
    [][ \A k \in (DOMAIN data_cache) \ (DOMAIN data_cache') :
           /\ op'.name = "set"
           /\ op'.key # k
           /\ op'.key \notin DOMAIN data_cache
           /\ Cardinality(DOMAIN data_cache) = limit
      ]_vars

\* a key has been evicted from a cache of at least two entries
C7_Witness ==
    /\ Evicted /\ limit >= 2
    /\ \E k \in Keys \ Resident : touched[k] > 0 /\ k = log[1].args[1]

\* C8: on a cache created empty with limit >= 1 every set returns: in the
\* eviction branch deq is not empty and its front key is in data_cache, in
\* the refresh branch the key is in deq, and the call ends as a refresh, an
\* insertion or an eviction followed by an insertion.
C8_SetNeverFails ==
    [][ op'.name = "set"
        => /\ result' = Return(None)
           /\ op'.key \in DOMAIN data_cache => op'.key \in Elems(deq)
           /\ (op'.key \notin DOMAIN data_cache /\ ~(Len(deq) < limit))
                 => (deq # <<>> /\ Head(deq) \in DOMAIN data_cache)
           /\ \/ /\ op'.key \in DOMAIN data_cache
                 /\ DOMAIN data_cache' = DOMAIN data_cache
              \/ /\ op'.key \notin DOMAIN data_cache
                 /\ Len(deq) < limit
                 /\ DOMAIN data_cache' = (DOMAIN data_cache) \cup {op'.key}
              \/ /\ op'.key \notin DOMAIN data_cache
                 /\ ~(Len(deq) < limit)
                 /\ deq # <<>>
                 /\ DOMAIN data_cache' =
                       ((DOMAIN data_cache) \ {Head(deq)}) \cup {op'.key}
      ]_vars

\* a second eviction in a row has ended
C8_Witness ==
    /\ Evicted /\ result = Return(None)
    /\ Cardinality({k \in Keys \ Resident : touched[k] > 0}) >= 2

\* C9: no get or set is ever executed on a store whose limit is <= 0,
\* because constructing it fails.
C9_NoCallOnNonPositiveLimit == op.name \in {"get", "set"} => limit >= 1

\* C10: a set that inserts a key that was not resident logs the info event
\* "add key: value to cache", with or without an eviction, and a set on a
\* resident key does not log it.
C10_EveryInsertLogsEntryAdded ==
    [][ op'.name = "set"
        => IF op'.key \notin DOMAIN data_cache
           THEN \E i \in 1..Len(log') : log'[i] = EvAdd(op'.key, op'.value)
           ELSE \A i \in 1..Len(log') : log'[i].level # "INFO"
      ]_vars


\* thread t logs a warning record in this step
LogsWarning(t) ==
    /\ Len(th'[t].log) = Len(th[t].log) + 1
    /\ th'[t].log[Len(th'[t].log)].level = "WARNING"

\* the call of set by thread t ends in this step
SetEnds(t) == th[t].name = "set" /\ th[t].pc # "idle" /\ th'[t].pc = "idle"

\* C11: a set logs the warning "remove from cache" exactly when it removes a
\* key; the record carries the key that was at the front of deq; when it is
\* logged the key is in neither data_cache nor deq and the info record "add
\* ... to cache" of the new key has not been logged yet, and is logged later
\* in the same call.
C11_EvictedEvent ==
    [][ \A t \in Threads :
          /\ LogsWarning(t)
               => /\ th[t].name = "set"
                  /\ th'[t].log[Len(th'[t].log)] = EvEvict(Head(th[t].deq0))
                  /\ Head(th[t].deq0) \notin DOMAIN data_cache
                  /\ Head(th[t].deq0) \notin Elems(deq)
                  /\ \A i \in 1..Len(th[t].log) : th[t].log[i].level # "INFO"
          /\ SetEnds(t)
               => LET removed == th[t].keys0 \ DOMAIN data_cache'
                      warnings == {i \in 1..Len(log') :
                                      log'[i].level = "WARNING"}
                  IN  /\ warnings # {} <=> removed # {}
                      /\ Cardinality(warnings) <= 1
                      /\ \A i \in warnings :
                            /\ removed = {log'[i].args[1]}
                            /\ \E j \in (i+1)..Len(log') :
                                  log'[j] = EvAdd(th[t].key, th[t].value)
      ]_vars

\* a set has just logged the warning for the key it took from the front of a
\* deque of two keys
C11_Witness ==
    \E t \in Threads :
        /\ th[t].pc = "L107"
        /\ th[t].log = <<EvEvict(th[t].rem)>>
        /\ Len(th[t].deq0) = 2
        /\ th[t].rem = th[t].deq0[1]


\* only main has called the cache, n times
MainAt(n) == main_pc = n /\ nops = n

\* C12: on LRUCache(2) the calls of main return None, val2, val1 for the
\* first three gets; set(k3, val3) evicts k2 and leaves {k1: val1, k3: val3}
\* in the order [k1, k3]; the last three gets return val3, None, val1 and
\* leave the order [k3, k1].
C12_MainScenario ==
    /\ MainAt(3) => result = Return(None)
    /\ MainAt(4) => result = Return("val2")
    /\ MainAt(5) => result = Return("val1")
    /\ MainAt(6) => /\ data_cache = [k \in {"k1", "k3"} |->
                                        IF k = "k1" THEN "val1" ELSE "val3"]
                    /\ deq = <<"k1", "k3">>
                    /\ log[1] = EvEvict("k2")
    /\ MainAt(7) => result = Return("val3")
    /\ MainAt(8) => result = Return(None)
    /\ MainAt(9) => /\ result = Return("val1")
                    /\ deq = <<"k3", "k1">>
                    /\ DOMAIN data_cache = {"k1", "k3"}

\* main has made its nine calls
C12_Witness == MainAt(9) /\ limit = 2 /\ op = Script[9]


\* no thread is inside a call
Quiet == \A t \in Threads : th[t].pc = "idle"

\* the invariants I1-I4 of the two structures
StructuresAgree ==
    /\ Cardinality(DOMAIN data_cache) = Len(deq)
    /\ Cardinality(DOMAIN data_cache) <= limit
    /\ DOMAIN data_cache = Elems(deq)
    /\ \A i, j \in 1..Len(deq) : deq[i] = deq[j] => i = j

\* C13: when every call runs to its end before the next one starts, between
\* calls I1-I4 hold and no call has failed; when the statements of the calls
\* of two threads interleave, a state where I1-I4 are broken or a call has
\* failed is reached.
C13_AtomicCallsAreSafe ==
    (atomic /\ Quiet) => (StructuresAgree /\ result.kind = "return")

\* two interleaved calls have ended and the cache holds more than limit keys
C13_Witness ==
    /\ ~atomic /\ Quiet
    /\ Cardinality(DOMAIN data_cache) > limit
    /\ result.kind = "return"

\* an interleaved call has failed
C13_WitnessFailure == ~atomic /\ Quiet /\ result.kind = "raise"

\* interleaved calls have left a key of data_cache out of deq
C13_WitnessOrphan ==
    ~atomic /\ Quiet /\ DOMAIN data_cache # Elems(deq)


\* C14: get and set do an amount of work that does not depend on the number
\* of resident entries, the promotion of a get hit and of a set on a resident
\* key included: deq.remove compares no more elements than it does in a
\* cache of one entry.
C14_PromotionWorkIsConstant ==
    [][ ( /\ op'.name \in {"get", "set"}
          /\ op'.key \in DOMAIN data_cache
          /\ op'.key \in Elems(deq) )
        => RemoveWork(deq, op'.key) <= RemoveWork(<<op'.key>>, op'.key)
      ]_vars


\* C15: a get that hits returns the value passed to the set call that took
\* its key from absent to resident, whatever later set calls on the resident
\* key were given.
C15_HitReturnsAdmittedValue ==
    [][ ( op'.name = "get" /\ op'.key \in DOMAIN data_cache )
        => /\ op'.key \in DOMAIN admitted
           /\ result' = Return(admitted[op'.key])
      ]_vars

\* a get has hit in a cache that also holds another key with another value
C15_Witness ==
    /\ op.name = "get" /\ op.key \in Resident
    /\ result = Return(admitted[op.key])
    /\ \E j \in Resident \ {op.key} : admitted[j] # result.val
    /\ nops >= 4


\* C16: a get that hits leaves data_cache (keys and values) and the size as
\* they were, and changes deq only by moving the key to the back: the other
\* keys keep their order.
C16_HitOnlyMovesKey ==
    [][ ( op'.name = "get" /\ op'.key \in DOMAIN data_cache )
        => /\ data_cache' = data_cache
           /\ Len(deq') = Len(deq)
           /\ deq'[Len(deq')] = op'.key
           /\ Without(deq', op'.key) = Without(deq, op'.key)
      ]_vars

\* a get has hit a key that was not at the back of a deque of three keys
C16_Witness ==
    /\ op.name = "get" /\ op.key \in Resident /\ result.kind = "return"
    /\ Len(deq) = 3
    /\ deq[3] = op.key
    /\ touched[deq[1]] < touched[deq[2]]
    /\ touched[deq[2]] = nops - 1


\* C17 as claimed: get returns None if and only if the key is not resident,
\* for every value that set can store, None included.
C17_NoneOnlyOnMiss ==
    [][ op'.name = "get"
        => (result' = Return(None) <=> op'.key \notin DOMAIN data_cache)
      ]_vars

\* C17 amended: get returns None if and only if the key is not resident or
\* the value stored under it is None; a hit on any other stored value
\* returns that value, which is not None.
C17_NoneOnMissOrStoredNone ==
    [][ op'.name = "get"
        => /\ result'.kind = "return"
           /\ result' = Return(None)
                <=> ( \/ op'.key \notin DOMAIN data_cache
                      \/ data_cache[op'.key] = None )
           /\ op'.key \in DOMAIN data_cache
                => result' = Return(data_cache[op'.key])
      ]_vars

\* a get has hit a key stored with the value None and returned None
C17_Witness ==
    /\ op.name = "get" /\ op.key \in Resident
    /\ data_cache[op.key] = None
    /\ result = Return(None)
    /\ touched[op.key] = nops


\* the deques a get or a set of the resident key k may leave: deq as it is,
\* and deq with k moved to the back
AfterDeqs(k) == {deq, Append(Without(deq, k), k)}

\* the dicts a get of k or a set(k, v) may leave: data_cache as it is, and
\* data_cache with v stored under k
AfterDicts(k, v) == {data_cache, DictSet(data_cache, k, v)}

\* get(k) can end with the deque d and the dict c
GetLeaves(k, d, c) == ENABLED (get(k) /\ deq' = d /\ data_cache' = c)

\* set(k, v) can end with the deque d and the dict c
SetLeaves(k, v, d, c) == ENABLED (set(k, v) /\ deq' = d /\ data_cache' = c)

\* C18: for a resident key k and any value v, set(k, v) and get(k) leave the
\* same data_cache and the same deq: what a set on a resident key leaves is
\* what get of that key would have left, and what a get hit leaves is what
\* set of that key with any value would have left.
C18_SetOnResidentActsAsGet ==
    [][ \A k \in DOMAIN data_cache :
          /\ \A w \in Values :
                (op'.name = "set" /\ op'.key = k /\ op'.value = w)
                => \E d \in AfterDeqs(k), c \in AfterDicts(k, w) :
                      /\ deq' = d
                      /\ data_cache' = c
                      /\ GetLeaves(k, d, c)
          /\ (op'.name = "get" /\ op'.key = k)
                => \E d \in AfterDeqs(k) :
                      /\ deq' = d
                      /\ data_cache' = data_cache
                      /\ \A v \in Values : SetLeaves(k, v, d, data_cache)
      ]_vars

\* a cache of three keys in which a set of the front key with a value other
\* than the stored one and a get of it lead to the same deque and dict
C18_Witness ==
    /\ Len(deq) = 3
    /\ \E v \in Values :
          /\ v # data_cache[deq[1]]
          /\ GetLeaves(deq[1], <<deq[2], deq[3], deq[1]>>, data_cache)
          /\ SetLeaves(deq[1], v, <<deq[2], deq[3], deq[1]>>, data_cache)


\* C19: on a cache created empty with limit >= 1 the number of resident keys
\* never decreases: it grows by one in a set of a key that is not resident
\* made below capacity, stays the same in every other call, and once it is
\* limit it stays limit.
C19_SizeNeverDecreases ==
    [][ LET before == Cardinality(DOMAIN data_cache)
            after == Cardinality(DOMAIN data_cache')
            grows == /\ op'.name = "set"
                     /\ op'.key \notin DOMAIN data_cache
                     /\ before < limit
        IN  /\ after >= before
            /\ grows => after = before + 1
            /\ ~grows => after = before
            /\ before = limit => after = limit
      ]_vars

\* a full cache of at least two keys has been used twice more, last by a set
\* that evicted a key
C19_Witness ==
    /\ Size = limit /\ limit >= 2
    /\ nops >= limit + 2
    /\ Evicted
    /\ \E k \in Resident : touched[k] < nops /\ touched[k] > limit

=============================================================================
